---- MODULE Spec2Model ----
(***************************************************************************)
(* Model of src/src/app/page.tsx: the scroll-driven frame animation        *)
(* (component Home), its frame addressing, frame cache, preload scheduler, *)
(* scroll mapper, render loop and story-balloon overlay.                   *)
(*                                                                         *)
(* Numbers are mathematical integers.  The scroll mapper's real-valued     *)
(* expression floor(scrollY / H * TOTAL_FRAMES) is computed exactly, as    *)
(* floor((scrollY * TOTAL_FRAMES) / H); the rounding of IEEE doubles is    *)
(* not modelled.                                                           *)
(***************************************************************************)
EXTENDS Integers, Sequences, FiniteSets, TLC

(***************************************************************************)
(* Program constants (page.tsx lines 84-99).                               *)
(***************************************************************************)
SEQUENCE_COUNT == 6
FRAMES_PER_SEQUENCE == 192
TOTAL_FRAMES == SEQUENCE_COUNT * FRAMES_PER_SEQUENCE
SCROLL_HEIGHT_PER_FRAME == 25
BALLOON_VISIBILITY_WINDOW == 50
INITIAL_PRELOAD_COUNT == 60
PRELOAD_AHEAD == 30
PRELOAD_BEHIND == 10

\* page.tsx line 186: the height of <main>, which is the document height.
totalScrollHeight == SCROLL_HEIGHT_PER_FRAME * TOTAL_FRAMES

\* String.prototype.padStart's target length in getFrameUrl (line 111).
PadWidth == 3

\* The sentinel appState.lastDrawnFrame starts with and handleResize restores.
NoFrame == -1

Max(a, b) == IF a >= b THEN a ELSE b
Min(a, b) == IF a <= b THEN a ELSE b

(***************************************************************************)
(* balloonMetadata (lines 9-80): the trigger list, in source order.        *)
(* A scene is represented by its sceneType and creature.                   *)
(***************************************************************************)
balloonMetadata ==
  << [sequenceIndex |-> 0, frameIndex |-> 0,
      scene |-> [sceneType |-> "Space", creature |-> "Cosmic Dragon"]],
     [sequenceIndex |-> 1, frameIndex |-> 0,
      scene |-> [sceneType |-> "Sky", creature |-> "Griffin"]],
     [sequenceIndex |-> 2, frameIndex |-> 0,
      scene |-> [sceneType |-> "Sky", creature |-> "Sky Whale"]],
     [sequenceIndex |-> 3, frameIndex |-> 0,
      scene |-> [sceneType |-> "Twilight / Sunset Sky", creature |-> "Sky Ray"]],
     [sequenceIndex |-> 4, frameIndex |-> 0,
      scene |-> [sceneType |-> "Forest", creature |-> "Forest Spirit"]],
     [sequenceIndex |-> 5, frameIndex |-> 0,
      scene |-> [sceneType |-> "Underground", creature |-> "Mole"]],
     [sequenceIndex |-> 5, frameIndex |-> 191,
      scene |-> [sceneType |-> "Deep Cave", creature |-> "Cave Spider"]] >>

\* The value null of the state activeScene; null?.creature is undefined,
\* which differs from every creature name.
null == [sceneType |-> "null", creature |-> "undefined"]

Scenes == {balloonMetadata[i].scene : i \in 1..Len(balloonMetadata)} \cup {null}

(***************************************************************************)
(* Frame addressing: getFrameUrl (lines 107-114).                          *)
(* A URL is the pair <<sequence, framePadded>> that the template string    *)
(* interpolates; the empty string '' is the empty sequence.                *)
(***************************************************************************)
EmptyUrl == <<>>

DigitChar == <<"0", "1", "2", "3", "4", "5", "6", "7", "8", "9">>

\* String(n) for an integer n >= 0: its decimal digits, most significant first.
RECURSIVE DecimalString(_)
DecimalString(n) ==
  IF n < 10 THEN <<DigitChar[n + 1]>>
  ELSE Append(DecimalString(n \div 10), DigitChar[(n % 10) + 1])

\* s.padStart(width, '0'): zeros in front up to width, s itself when longer.
RECURSIVE padStart(_, _)
padStart(s, width) ==
  IF Len(s) >= width THEN s ELSE padStart(<<"0">> \o s, width)

\* getFrameUrl with the range test letting TOTAL_FRAMES itself through and
\* the sequence number 0-based.
getFrameUrlOffByOne(frameIndex) ==
  IF frameIndex < 0 \/ frameIndex > TOTAL_FRAMES THEN EmptyUrl
  ELSE << frameIndex \div FRAMES_PER_SEQUENCE,
          padStart(DecimalString(frameIndex % FRAMES_PER_SEQUENCE), PadWidth) >>

getFrameUrl(frameIndex) ==
  IF frameIndex < 0 \/ frameIndex >= TOTAL_FRAMES THEN EmptyUrl
  ELSE LET sequence == (frameIndex \div FRAMES_PER_SEQUENCE) + 1
           frameInSequence == frameIndex % FRAMES_PER_SEQUENCE
           framePadded == padStart(DecimalString(frameInSequence), PadWidth)
       IN  <<sequence, framePadded>>

(***************************************************************************)
(* Scroll mapper: the body of handleScroll (lines 316-329) as a function   *)
(* of the target frame so far, window.scrollY and the scrollable height.   *)
(***************************************************************************)
\* Math.floor(scrollFraction * TOTAL_FRAMES) for scrollableHeight > 0.
FloorFrame(scrollY, scrollableHeight) ==
  (scrollY * TOTAL_FRAMES) \div scrollableHeight

\* handleScroll without its early return: in JavaScript y / 0 is Infinity,
\* -Infinity or NaN, and NaN is then discarded by the isNaN test.
handleScrollUnguarded(targetFrame, scrollY, scrollableHeight) ==
  IF scrollableHeight = 0
  THEN IF scrollY > 0 THEN TOTAL_FRAMES - 1
       ELSE IF scrollY < 0 THEN 0 ELSE targetFrame
  ELSE IF scrollableHeight < 0
       THEN Min(TOTAL_FRAMES - 1,
                Max(0, ((0 - scrollY) * TOTAL_FRAMES) \div (0 - scrollableHeight)))
       ELSE Min(TOTAL_FRAMES - 1, Max(0, FloorFrame(scrollY, scrollableHeight)))

\* handleScroll without the lower clamp Math.max(0, .).
handleScrollNoFloor(targetFrame, scrollY, scrollableHeight) ==
  IF scrollableHeight <= 0 THEN targetFrame
  ELSE Min(TOTAL_FRAMES - 1, FloorFrame(scrollY, scrollableHeight))

\* handleScroll with the upper clamp at TOTAL_FRAMES instead of TOTAL_FRAMES - 1.
handleScrollClampHigh(targetFrame, scrollY, scrollableHeight) ==
  IF scrollableHeight <= 0 THEN targetFrame
  ELSE Min(TOTAL_FRAMES, Max(0, FloorFrame(scrollY, scrollableHeight)))

\* The value of appState.targetFrame after handleScroll.  scrollY and the
\* heights are finite numbers, so with scrollableHeight > 0 the frame is never
\* NaN and the isNaN test always lets the write through.
handleScroll(targetFrame, scrollY, scrollableHeight) ==
  IF scrollableHeight <= 0 THEN targetFrame
  ELSE LET frame == Min(TOTAL_FRAMES - 1,
                        Max(0, FloorFrame(scrollY, scrollableHeight)))
       IN  frame

(***************************************************************************)
(* Overlay: the trigger lookup and the visibility test of animate          *)
(* (lines 265-293).                                                        *)
(***************************************************************************)
triggerAbsoluteFrame(trigger) ==
  (trigger.sequenceIndex * FRAMES_PER_SEQUENCE) + trigger.frameIndex

\* The loop of lines 267-274 from index i down: the position in
\* balloonMetadata of the trigger it breaks on, 0 when it finds none.
RECURSIVE ScanTriggers(_, _)
ScanTriggers(i, targetFrame) ==
  IF i = 0 THEN 0
  ELSE IF targetFrame >= triggerAbsoluteFrame(balloonMetadata[i]) THEN i
       ELSE ScanTriggers(i - 1, targetFrame)

\* A scan that runs first to last and so breaks on the first trigger.
mostRecentTriggerForward(targetFrame) ==
  IF targetFrame >= triggerAbsoluteFrame(balloonMetadata[1]) THEN 1 ELSE 0

mostRecentTrigger(targetFrame) ==
  ScanTriggers(Len(balloonMetadata), targetFrame)

\* The calls of setActiveScene made by one evaluation (lines 277-293), given
\* the activeScene the closure sees: <<>> when none is made, else <<value>>.
setActiveSceneCalls(activeScene, targetFrame) ==
  LET m == mostRecentTrigger(targetFrame)
  IN  IF m # 0
      THEN IF targetFrame < triggerAbsoluteFrame(balloonMetadata[m])
                              + BALLOON_VISIBILITY_WINDOW
           THEN IF activeScene.creature # balloonMetadata[m].scene.creature
                THEN <<balloonMetadata[m].scene>> ELSE <<>>
           ELSE IF activeScene # null THEN <<null>> ELSE <<>>
      ELSE IF activeScene # null THEN <<null>> ELSE <<>>

\* The scene shown once the queued state update, if any, is applied.
ApplyCalls(activeScene, calls) ==
  IF calls = <<>> THEN activeScene ELSE calls[Len(calls)]

(***************************************************************************)
(* Bounds of the environment.                                              *)
(***************************************************************************)
\* Loads complete in the order they were issued, and the other handlers see
\* the completions BurstSize at a time: BurstSize onload/onerror events run
\* back to back before another event is dispatched.
BurstSize == 10

\* At most this many of the candidate frames fail to load.
MaxBroken == 1

\* Frames whose image the server may fail to deliver.
BrokenCandidates == {0, 658}

\* The values window.scrollY takes, in CSS pixels.
ScrollStops == {0, 16000}

\* The values window.innerHeight takes; the last one makes the page too
\* short to scroll.
ViewportHeights == {800, 14800, totalScrollHeight}

\* HTMLCanvasElement's default height, before handleResize first runs.
DefaultCanvasHeight == 150

(***************************************************************************)
(* State.                                                                  *)
(***************************************************************************)
VARIABLES
  mounted,          \* Home is mounted; canvasRef.current is the canvas iff so
  isLoading,        \* useState(true), line 176
  activeScene,      \* useState(null), line 177: the value the closures see
  sceneUpdate,      \* the queued setActiveScene update: <<>> or <<scene>>
  imageCache,       \* imageCache.current: frame index -> image
  inFlight,         \* the loads issued and not completed, in issue order
  issued,           \* frame index -> number of loads ever issued for it
  targetFrame,      \* appState.current.targetFrame
  lastDrawnFrame,   \* appState.current.lastDrawnFrame
  canvasFrame,      \* the frame the canvas bitmap shows, NoFrame when blank
  canvasHeight,     \* canvas.height
  rafPending,       \* number of requested animation frames not yet run
  listening,        \* the scroll and resize listeners are registered
  scrollY,          \* window.scrollY
  innerHeight,      \* window.innerHeight
  broken,           \* the frames whose load ends in onerror
  last,             \* probe: what the last step did
  streak,           \* probe: the current run of drawFrame calls on one index
  probeIn,          \* the arguments of a function under test
  probeOut          \* its result

appVars == <<mounted, isLoading, activeScene, sceneUpdate, imageCache, inFlight,
             issued, targetFrame, lastDrawnFrame, canvasFrame, canvasHeight,
             rafPending, listening, scrollY, innerHeight, broken, last, streak>>
probeVars == <<probeIn, probeOut>>
vars == <<appVars, probeVars>>

\* document.documentElement.scrollHeight - window.innerHeight (line 317); the
\* document is as tall as <main> (line 357) and never shorter than the viewport.
scrollableHeight == Max(totalScrollHeight, innerHeight) - innerHeight

\* new Image() with src set: not complete, no natural size yet.
NewImage(i) == [src |-> getFrameUrl(i), status |-> "pending"]

\* The test of line 192 without its naturalHeight part: img.complete alone,
\* which a failed image passes.
DrawableComplete(img) == img.status # "pending"

\* The test of line 192 on a cached image: complete with naturalHeight # 0.
\* A failed image is complete with naturalHeight = 0.
Drawable(img) == img.status = "ready"

Settled(i) == i \in DOMAIN imageCache /\ imageCache[i].status # "pending"

NoStreak == [frame |-> NoFrame, blits |-> 0]

\* appState and the canvas, threaded through the calls of one handler, with
\* the probes the handler's draws feed.
Now == [targetFrame |-> targetFrame, lastDrawnFrame |-> lastDrawnFrame,
        canvasFrame |-> canvasFrame, canvasHeight |-> canvasHeight,
        blits |-> <<>>, streak |-> streak]

CountDraw(st, frameIndex, blit) ==
  IF st.frame = frameIndex
  THEN [st EXCEPT !.blits = Min(st.blits + (IF blit THEN 1 ELSE 0), 2)]
  ELSE [frame |-> frameIndex, blits |-> IF blit THEN 1 ELSE 0]

(***************************************************************************)
(* drawFrame (lines 188-224).  The 2d context is always obtained.          *)
(***************************************************************************)
\* drawFrame without the lastDrawnFrame test of line 193.
drawFrameAlways(d, frameIndex) ==
  LET blit == /\ mounted
              /\ frameIndex \in DOMAIN imageCache
              /\ Drawable(imageCache[frameIndex])
  IN  IF ~blit THEN [d EXCEPT !.streak = CountDraw(d.streak, frameIndex, FALSE)]
      ELSE [d EXCEPT !.canvasFrame = frameIndex,
                     !.lastDrawnFrame = frameIndex,
                     !.blits = Append(d.blits,
                                 [frame |-> frameIndex, target |-> d.targetFrame,
                                  prev |-> d.lastDrawnFrame]),
                     !.streak = CountDraw(d.streak, frameIndex, TRUE)]

drawFrame(d, frameIndex) ==
  LET blit == /\ mounted
              /\ frameIndex \in DOMAIN imageCache
              /\ Drawable(imageCache[frameIndex])
              /\ d.lastDrawnFrame # frameIndex
  IN  IF ~blit THEN [d EXCEPT !.streak = CountDraw(d.streak, frameIndex, FALSE)]
      ELSE [d EXCEPT !.canvasFrame = frameIndex,
                     !.lastDrawnFrame = frameIndex,
                     !.blits = Append(d.blits,
                                 [frame |-> frameIndex, target |-> d.targetFrame,
                                  prev |-> d.lastDrawnFrame]),
                     !.streak = CountDraw(d.streak, frameIndex, TRUE)]

(***************************************************************************)
(* preloadFrames (lines 226-238): the cache after the call and the loads   *)
(* it issued, in the order of the loop.                                    *)
(***************************************************************************)
Range(lo, hi) == [k \in 1..Max(0, hi - lo + 1) |-> lo + k - 1]

\* imageCache.current.set(i, img) with a new image, for each of the indices;
\* f @@ g is g overridden by f.
LoadAll(cache, indices) ==
  IF indices = <<>> THEN cache
  ELSE [i \in {indices[k] : k \in DOMAIN indices} |-> NewImage(i)] @@ cache

\* preloadFrames without the imageCache.has test of line 232.
preloadFramesNoHas(cache, target) ==
  LET start == Max(0, target - PRELOAD_BEHIND)
      end == Min(TOTAL_FRAMES - 1, target + PRELOAD_AHEAD)
      new == Range(start, end)
  IN  [cache |-> LoadAll(cache, new), loads |-> new]

\* preloadFrames without the clamps of lines 228-229.
preloadFramesNoClamp(cache, target) ==
  LET start == target - PRELOAD_BEHIND
      end == target + PRELOAD_AHEAD
      Missing(i) == i \notin DOMAIN cache
      new == SelectSeq(Range(start, end), Missing)
  IN  [cache |-> LoadAll(cache, new), loads |-> new]

\* preloadFrames starting at the target frame, without PRELOAD_BEHIND.
preloadFramesAheadOnly(cache, target) ==
  LET start == target
      end == Min(TOTAL_FRAMES - 1, target + PRELOAD_AHEAD)
      Missing(i) == i \notin DOMAIN cache
      new == SelectSeq(Range(start, end), Missing)
  IN  [cache |-> LoadAll(cache, new), loads |-> new]

\* preloadFrames that requests nothing.
preloadFramesNone(cache, target) == [cache |-> cache, loads |-> <<>>]

\* preloadFrames that drops the entries outside the window.
preloadFramesEvict(cache, target) ==
  LET start == Max(0, target - PRELOAD_BEHIND)
      end == Min(TOTAL_FRAMES - 1, target + PRELOAD_AHEAD)
      Missing(i) == i \notin DOMAIN cache
      new == SelectSeq(Range(start, end), Missing)
      all == LoadAll(cache, new)
  IN  [cache |-> [i \in start..end |-> all[i]], loads |-> new]

\* new is the sequence of the indices the loop finds missing, computed once.
preloadFrames(cache, target) ==
  LET start == Max(0, target - PRELOAD_BEHIND)
      end == Min(TOTAL_FRAMES - 1, target + PRELOAD_AHEAD)
      Missing(i) == i \notin DOMAIN cache
  IN  CHOOSE r \in {[cache |-> LoadAll(cache, new), loads |-> new] :
                      new \in {SelectSeq(Range(start, end), Missing)}} : TRUE

\* The count of loads issued, after the loads of one more call.
CountLoads(count, indices) ==
  IF indices = <<>> THEN count
  ELSE [i \in {indices[k] : k \in DOMAIN indices} |->
          (IF i \in DOMAIN count THEN count[i] ELSE 0)
            + Cardinality({k \in DOMAIN indices : indices[k] = i})] @@ count

(***************************************************************************)
(* The handlers of the scroll/resize effect (lines 316-340).               *)
(***************************************************************************)
DoScroll(d) ==
  [d EXCEPT !.targetFrame = handleScroll(d.targetFrame, scrollY, scrollableHeight)]

\* handleResize without the reset of line 338.
handleResizeNoReset(d, height) ==
  IF ~mounted THEN d
  ELSE drawFrame([d EXCEPT !.canvasHeight = height,
                           !.canvasFrame = NoFrame,
                           !.streak = NoStreak],
                 d.targetFrame)

\* Assigning canvas.width or canvas.height clears the bitmap.
handleResize(d, height) ==
  IF ~mounted THEN d
  ELSE drawFrame([d EXCEPT !.canvasHeight = height,
                           !.canvasFrame = NoFrame,
                           !.lastDrawnFrame = NoFrame,
                           !.streak = NoStreak],
                 d.targetFrame)

\* The state after a handler: appState, the canvas and the probes.
Store(d, op) ==
  /\ targetFrame' = d.targetFrame
  /\ lastDrawnFrame' = d.lastDrawnFrame
  /\ canvasFrame' = d.canvasFrame
  /\ canvasHeight' = d.canvasHeight
  /\ streak' = d.streak
  /\ last' = [op |-> op, blits |-> d.blits, before |-> lastDrawnFrame]

\* A cleanup that cancels nothing.
LoopCleanupNoCancel(n) == n

\* cancelAnimationFrame(animationFrameId) in the loop effect's cleanup
\* (lines 305-309): the id is that of the one pending request, if any.
LoopCleanup(n) == IF n > 0 THEN n - 1 ELSE n

(***************************************************************************)
(* Init: the state after the first render and its effects.  The initial-   *)
(* load effect (lines 241-257) has issued the loads of frames              *)
(* 0..INITIAL_PRELOAD_COUNT-1; the loop effect has requested no frame and  *)
(* the scroll effect has returned early, because isLoading is true.        *)
(***************************************************************************)
InitialFrames == Range(0, INITIAL_PRELOAD_COUNT - 1)

\* The first render with the scroll effect registering its listeners at once,
\* without the early return of line 314.
AppInitListening ==
  /\ mounted = TRUE
  /\ isLoading = TRUE
  /\ activeScene = null
  /\ sceneUpdate = <<>>
  /\ imageCache = LoadAll(<<>>, InitialFrames)
  /\ inFlight = InitialFrames
  /\ issued = CountLoads(<<>>, InitialFrames)
  /\ targetFrame = 0
  /\ lastDrawnFrame = NoFrame
  /\ canvasFrame = NoFrame
  /\ canvasHeight = DefaultCanvasHeight
  /\ rafPending = 0
  /\ listening = TRUE
  /\ last = [op |-> "mount", blits |-> <<>>, before |-> NoFrame]
  /\ streak = NoStreak

AppInit ==
  /\ mounted = TRUE
  /\ isLoading = TRUE
  /\ activeScene = null
  /\ sceneUpdate = <<>>
  /\ imageCache = LoadAll(<<>>, InitialFrames)
  /\ inFlight = InitialFrames
  /\ issued = CountLoads(<<>>, InitialFrames)
  /\ targetFrame = 0
  /\ lastDrawnFrame = NoFrame
  /\ canvasFrame = NoFrame
  /\ canvasHeight = DefaultCanvasHeight
  /\ rafPending = 0
  /\ listening = FALSE
  /\ last = [op |-> "mount", blits |-> <<>>, before |-> NoFrame]
  /\ streak = NoStreak

Init ==
  /\ AppInit
  /\ scrollY = 0
  /\ innerHeight \in ViewportHeights
  /\ broken \in {b \in SUBSET BrokenCandidates : Cardinality(b) <= MaxBroken}
  /\ probeIn = <<>>
  /\ probeOut = <<>>

(***************************************************************************)
(* Actions.                                                                *)
(***************************************************************************)
\* The oldest loads in flight complete: img.onload or img.onerror for each,
\* by the server's answer.  n is the size of the burst, done its frames.
LoadSettles ==
  /\ inFlight # <<>>
  /\ \E n \in {Min(BurstSize, Len(inFlight))} :
       \E done \in {{inFlight[k] : k \in 1..n}} :
         /\ imageCache' = [i \in DOMAIN imageCache |->
                             IF i \in done
                             THEN [imageCache[i] EXCEPT !.status =
                                     IF i \in broken THEN "failed" ELSE "ready"]
                             ELSE imageCache[i]]
         /\ inFlight' = SubSeq(inFlight, n + 1, Len(inFlight))
  /\ last' = [op |-> "load", blits |-> <<>>, before |-> lastDrawnFrame]
  /\ UNCHANGED <<mounted, isLoading, activeScene, sceneUpdate, issued, targetFrame,
                 lastDrawnFrame, canvasFrame, canvasHeight, rafPending, listening,
                 scrollY, innerHeight, broken, streak, probeVars>>

\* Promise.all of the initial loads resolves (line 254), setIsLoading(false)
\* re-renders, and the effects that depend on isLoading run: the loop effect
\* requests the first frame (line 302); the scroll effect runs its initial
\* setup and registers the listeners (lines 343-348).
\* A barrier that waits only for the first load to settle (Promise.race).
InitialBarrierRace == \E k \in 1..Len(InitialFrames) : Settled(InitialFrames[k])

InitialBarrier == \A k \in 1..Len(InitialFrames) : Settled(InitialFrames[k])

\* The end of loading with an initial setup that skips handleResize.
LoadingDoneNoResize ==
  /\ mounted
  /\ isLoading
  /\ InitialBarrier
  /\ isLoading' = FALSE
  /\ rafPending' = LoopCleanup(rafPending) + 1
  /\ listening' = TRUE
  /\ Store(drawFrame(DoScroll(Now), 0), "loaded")
  /\ UNCHANGED <<mounted, activeScene, sceneUpdate, imageCache, inFlight, issued,
                 scrollY, innerHeight, broken, probeVars>>

LoadingDone ==
  /\ mounted
  /\ isLoading
  /\ InitialBarrier
  /\ isLoading' = FALSE
  /\ rafPending' = LoopCleanup(rafPending) + 1
  /\ listening' = TRUE
  /\ Store(drawFrame(DoScroll(handleResize(Now, innerHeight)), 0), "loaded")
  /\ UNCHANGED <<mounted, activeScene, sceneUpdate, imageCache, inFlight, issued,
                 scrollY, innerHeight, broken, probeVars>>

\* animate (lines 262-298): one requested animation frame runs.  It runs
\* whenever a request is pending; React drops a setActiveScene made after
\* Home has unmounted.
Tick ==
  /\ rafPending > 0
  /\ \E p \in {preloadFrames(imageCache, targetFrame)} :
       LET calls == setActiveSceneCalls(activeScene, targetFrame)
       IN  /\ sceneUpdate' = IF calls = <<>> \/ ~mounted THEN sceneUpdate ELSE calls
           /\ \E d \in {drawFrame(Now, targetFrame)} : Store(d, "tick")
           /\ imageCache' = p.cache
           /\ inFlight' = inFlight \o p.loads
           /\ issued' = CountLoads(issued, p.loads)
  /\ rafPending' = (rafPending - 1) + 1
  /\ UNCHANGED <<mounted, isLoading, activeScene, listening, scrollY, innerHeight,
                 broken, probeVars>>

\* React applies the queued setActiveScene; when the scene changed, the loop
\* effect is cleaned up and run again (its dependency list names activeScene).
SceneCommit ==
  /\ mounted
  /\ sceneUpdate # <<>>
  /\ activeScene' = sceneUpdate[1]
  /\ sceneUpdate' = <<>>
  /\ rafPending' = IF sceneUpdate[1] = activeScene THEN rafPending
                   ELSE LoopCleanup(rafPending) + (IF isLoading THEN 0 ELSE 1)
  /\ last' = [op |-> "commit", blits |-> <<>>, before |-> lastDrawnFrame]
  /\ UNCHANGED <<mounted, isLoading, imageCache, inFlight, issued, targetFrame,
                 lastDrawnFrame, canvasFrame, canvasHeight, listening, scrollY,
                 innerHeight, broken, streak, probeVars>>

\* The page scrolls to y; the scroll listener, if registered, runs.
Scroll(y) ==
  /\ y # scrollY
  /\ scrollY' = y
  /\ IF listening
     THEN Store([Now EXCEPT !.targetFrame =
                   handleScroll(targetFrame, y, scrollableHeight)], "scroll")
     ELSE Store(Now, "none")
  /\ UNCHANGED <<mounted, isLoading, activeScene, sceneUpdate, imageCache, inFlight,
                 issued, rafPending, listening, innerHeight, broken, probeVars>>

\* The viewport is resized to height h; the resize listener, if registered, runs.
Resize(h) ==
  /\ h # innerHeight
  /\ innerHeight' = h
  /\ IF listening
     THEN Store(handleResize(Now, h), "resize")
     ELSE Store(Now, "none")
  /\ UNCHANGED <<mounted, isLoading, activeScene, sceneUpdate, imageCache, inFlight,
                 issued, rafPending, listening, scrollY, broken, probeVars>>

\* Home unmounts: both effects are cleaned up (lines 305-309, 350-353) and the
\* canvas ref is cleared; a queued state update is dropped.
\* An unmount whose cleanup leaves the scroll and resize listeners registered.
UnmountKeepListeners ==
  /\ mounted
  /\ mounted' = FALSE
  /\ rafPending' = LoopCleanup(rafPending)
  /\ sceneUpdate' = <<>>
  /\ last' = [op |-> "unmount", blits |-> <<>>, before |-> lastDrawnFrame]
  /\ UNCHANGED <<isLoading, activeScene, imageCache, inFlight, issued, targetFrame,
                 lastDrawnFrame, canvasFrame, canvasHeight, listening, scrollY,
                 innerHeight, broken, streak, probeVars>>

Unmount ==
  /\ mounted
  /\ mounted' = FALSE
  /\ rafPending' = LoopCleanup(rafPending)
  /\ listening' = FALSE
  /\ sceneUpdate' = <<>>
  /\ last' = [op |-> "unmount", blits |-> <<>>, before |-> lastDrawnFrame]
  /\ UNCHANGED <<isLoading, activeScene, imageCache, inFlight, issued, targetFrame,
                 lastDrawnFrame, canvasFrame, canvasHeight, scrollY, innerHeight,
                 broken, streak, probeVars>>

Next ==
  \/ LoadSettles
  \/ LoadingDone
  \/ Tick
  \/ SceneCommit
  \/ \E y \in ScrollStops : Scroll(y)
  \/ \E h \in ViewportHeights : Resize(h)
  \/ Unmount

Spec == Init /\ [][Next]_vars

\* React renders the state update setIsLoading(false) queues, as long as
\* Home stays mounted.
FairLoading == Spec /\ WF_vars(LoadingDone)

\* The server delivers every frame.
InitAllLoad == Init /\ broken = {}

\* The browser runs every requested animation frame, and every load that is
\* in flight completes.
FairTicks ==
  InitAllLoad /\ [][Next]_vars /\ WF_vars(Tick) /\ WF_vars(LoadSettles)

(***************************************************************************)
(* Specifications that apply one pure function to inputs drawn from a      *)
(* bounded set.  The component's own state stays as mounted.               *)
(***************************************************************************)
\* How far outside [0, TOTAL_FRAMES) frame indices are tried.
AddrMargin == 40

\* The scroll offsets tried: -ScrollOver .. MaxProbeScroll.
ScrollOver == 3
MaxProbeScroll == 2100

\* The scrollable heights tried.
ProbeHeights == {-5, 0, 1, 7, 1152, 2000}

\* The target frames a scroll event may find.
ProbeTargets == {0, 500}

Idle ==
  /\ AppInit
  /\ scrollY = 0
  /\ innerHeight = 800
  /\ broken = {}

InitAddr ==
  /\ Idle
  /\ probeIn \in [frameIndex : (0 - AddrMargin)..(TOTAL_FRAMES - 1 + AddrMargin)]
  /\ probeOut = <<>>

Locate ==
  /\ probeOut = <<>>
  /\ probeOut' = <<getFrameUrl(probeIn.frameIndex)>>
  /\ UNCHANGED <<appVars, probeIn>>

SpecAddr == InitAddr /\ [][Locate]_vars

InitScroll ==
  /\ Idle
  /\ probeIn \in [targetFrame : ProbeTargets,
                  scrollY : (0 - ScrollOver)..MaxProbeScroll,
                  scrollableHeight : ProbeHeights]
  /\ probeOut = <<>>

MapScroll ==
  /\ probeOut = <<>>
  /\ probeOut' = <<handleScroll(probeIn.targetFrame, probeIn.scrollY,
                                probeIn.scrollableHeight)>>
  /\ UNCHANGED <<appVars, probeIn>>

SpecScroll == InitScroll /\ [][MapScroll]_vars

InitOverlay ==
  /\ Idle
  /\ probeIn \in [activeScene : Scenes, targetFrame : 0..(TOTAL_FRAMES - 1)]
  /\ probeOut = <<>>

EvalOverlay ==
  /\ probeOut = <<>>
  /\ probeOut' = <<ApplyCalls(probeIn.activeScene,
                     setActiveSceneCalls(probeIn.activeScene, probeIn.targetFrame))>>
  /\ UNCHANGED <<appVars, probeIn>>

SpecOverlay == InitOverlay /\ [][EvalOverlay]_vars

(***************************************************************************)
(* Claims.                                                                 *)
(***************************************************************************)
InRange(i) == i >= 0 /\ i < TOTAL_FRAMES

\* The number a string of decimal digits denotes.
DigitOf(c) == CHOOSE d \in 0..9 : DigitChar[d + 1] = c
RECURSIVE DigitsValue(_)
DigitsValue(s) ==
  IF s = <<>> THEN 0
  ELSE 10 * DigitsValue(SubSeq(s, 1, Len(s) - 1)) + DigitOf(s[Len(s)])

\* C1: for every frameIndex in [0, TOTAL_FRAMES) getFrameUrl yields the
\* sequence number floor(frameIndex / 192) + 1, in [1, 6], and the in-sequence
\* index frameIndex mod 192, in [0, 192), written with exactly 3 digits
\* (0 -> 1 "000", 191 -> 1 "191", 192 -> 2 "000", 1151 -> 6 "191").
C1_FrameAddress ==
  /\ TOTAL_FRAMES = 1152
  /\ (probeOut # <<>> /\ InRange(probeIn.frameIndex)) =>
       LET i == probeIn.frameIndex
           url == probeOut[1]
       IN  /\ Len(url) = 2
           /\ url[1] \in 1..SEQUENCE_COUNT
           /\ (url[1] - 1) * FRAMES_PER_SEQUENCE <= i
           /\ i < url[1] * FRAMES_PER_SEQUENCE
           /\ Len(url[2]) = 3
           /\ DigitsValue(url[2]) \in 0..(FRAMES_PER_SEQUENCE - 1)
           /\ DigitsValue(url[2]) = i - (url[1] - 1) * FRAMES_PER_SEQUENCE
           /\ (i = 0 => url = <<1, <<"0", "0", "0">>>>)
           /\ (i = 191 => url = <<1, <<"1", "9", "1">>>>)
           /\ (i = 192 => url = <<2, <<"0", "0", "0">>>>)
           /\ (i = 1151 => url = <<6, <<"1", "9", "1">>>>)

C1_Witness ==
  /\ probeOut # <<>>
  /\ probeIn.frameIndex = 1151
  /\ probeOut[1] = <<6, <<"1", "9", "1">>>>

\* C2: getFrameUrl returns the empty locator for every frameIndex outside
\* [0, TOTAL_FRAMES), and no load is ever issued and no cache entry ever
\* created for such an index: every cached image has an index in range and a
\* non-empty src.
C2_NoRequestOutsideRange ==
  /\ \A i \in ((0 - AddrMargin)..(-1))
                \cup (TOTAL_FRAMES..(TOTAL_FRAMES + AddrMargin)) :
       getFrameUrl(i) = EmptyUrl
  /\ \A i \in DOMAIN imageCache :
       InRange(i) /\ imageCache[i].src # EmptyUrl
  /\ \A i \in DOMAIN issued : InRange(i)
  /\ \A k \in 1..Len(inFlight) : InRange(inFlight[k])

\* Ticks have preloaded at both ends of the range, where the window is cut.
C2_Witness ==
  /\ last.op = "tick"
  /\ targetFrame = TOTAL_FRAMES - 1
  /\ (TOTAL_FRAMES - 1) \in DOMAIN imageCache
  /\ 0 \in DOMAIN imageCache
  /\ Cardinality(DOMAIN imageCache) = INITIAL_PRELOAD_COUNT + PRELOAD_BEHIND + 1

\* C3: at most one load is ever issued per frame index: a frame whose entry is
\* pending, ready or failed is not loaded again, neither one the initial-load
\* phase requested nor one whose load failed.
C3_OneLoadPerFrame ==
  /\ \A i \in DOMAIN issued : issued[i] = 1
  /\ DOMAIN issued = DOMAIN imageCache
  /\ \A j, k \in 1..Len(inFlight) : inFlight[j] = inFlight[k] => j = k

\* A tick has run the preload scheduler over frames of the initial-load phase,
\* one of them failed, while a later window is still loading.
C3_Witness ==
  /\ last.op = "tick"
  /\ targetFrame = 0
  /\ imageCache[0].status = "failed"
  /\ issued[0] = 1
  /\ \E i \in DOMAIN imageCache :
       i >= INITIAL_PRELOAD_COUNT /\ imageCache[i].status = "pending"

\* C4: with scrollable height H > 0 the scroll mapper sets Target Frame to
\* clamp(floor(scrollY / H * TOTAL_FRAMES), 0, TOTAL_FRAMES - 1): frame 0 at
\* scrollY = 0, frame TOTAL_FRAMES - 1 at scrollY = H and beyond.
C4_ScrollMapping ==
  (probeOut # <<>> /\ probeIn.scrollableHeight > 0) =>
    LET y == probeIn.scrollY
        H == probeIn.scrollableHeight
        f == probeOut[1]
    IN  /\ f \in 0..(TOTAL_FRAMES - 1)
        /\ (f > 0 => f * H <= y * TOTAL_FRAMES)
        /\ (f < TOTAL_FRAMES - 1 => y * TOTAL_FRAMES < (f + 1) * H)
        /\ (y = 0 => f = 0)
        /\ (y = H => f = TOTAL_FRAMES - 1)
        /\ (y >= H => f = TOTAL_FRAMES - 1)

C4_Witness ==
  /\ probeOut # <<>>
  /\ probeIn.scrollableHeight = 2000
  /\ probeIn.scrollY = probeIn.scrollableHeight
  /\ probeIn.targetFrame = 500
  /\ probeOut[1] = TOTAL_FRAMES - 1

TriggerFrames ==
  [i \in 1..Len(balloonMetadata) |-> triggerAbsoluteFrame(balloonMetadata[i])]

SceneAt(frame) ==
  balloonMetadata[CHOOSE i \in 1..Len(balloonMetadata) : TriggerFrames[i] = frame].scene

\* C5 as stated: the trigger frames are [0, 192, 384, 576, 768, 960, 1151],
\* targetFrame = 1000 selects the trigger at 960, whose scene is Deep Cave /
\* Cave Spider; the overlay shows it for every targetFrame in [960, 1010) and
\* is inactive at 1010.
C5_AsStated ==
  /\ TriggerFrames = <<0, 192, 384, 576, 768, 960, 1151>>
  /\ TriggerFrames[mostRecentTrigger(1000)] = 960
  /\ (probeOut # <<>> /\ probeIn.targetFrame \in 960..1009) =>
       probeOut[1] = [sceneType |-> "Deep Cave", creature |-> "Cave Spider"]
  /\ (probeOut # <<>> /\ probeIn.targetFrame = 1010) => probeOut[1] = null

\* C5 amended: the trigger frames are [0, 192, 384, 576, 768, 960, 1151],
\* targetFrame = 1000 selects the trigger at 960, whose scene is Underground /
\* Mole; the overlay shows that scene for every targetFrame in [960, 1010) and
\* is inactive at 1010.
C5_TriggerLookup ==
  /\ TriggerFrames = <<0, 192, 384, 576, 768, 960, 1151>>
  /\ TriggerFrames[mostRecentTrigger(1000)] = 960
  /\ SceneAt(960) = [sceneType |-> "Underground", creature |-> "Mole"]
  /\ SceneAt(1151) = [sceneType |-> "Deep Cave", creature |-> "Cave Spider"]
  /\ (probeOut # <<>> /\ probeIn.targetFrame \in 960..1009) =>
       probeOut[1] = [sceneType |-> "Underground", creature |-> "Mole"]
  /\ (probeOut # <<>> /\ probeIn.targetFrame = 1010) => probeOut[1] = null

C5_Witness ==
  /\ probeOut # <<>>
  /\ probeIn.targetFrame = 1000
  /\ probeIn.activeScene = null
  /\ probeOut[1].creature = "Mole"

InitialSettled ==
  \A i \in 0..(INITIAL_PRELOAD_COUNT - 1) :
    i \in DOMAIN imageCache /\ imageCache[i].status \in {"ready", "failed"}

\* C6: the loading state ends only when all 60 initial loads have settled,
\* failed ones counting as settled; it is never over while one of them is
\* pending, it ends once they all have settled, and it ends once only.
C6_InitialBarrier ==
  /\ [](~isLoading => InitialSettled)
  /\ [][~isLoading => ~isLoading']_vars
  /\ [][(isLoading /\ ~isLoading') => (InitialSettled /\ last'.op = "loaded")]_vars
  /\ (mounted /\ InitialSettled) ~> (~isLoading \/ ~mounted)

\* Loading has ended over a mix of loaded and failed frames.
C6_Witness ==
  /\ ~isLoading
  /\ last.op = "loaded"
  /\ imageCache[0].status = "failed"
  /\ imageCache[INITIAL_PRELOAD_COUNT - 1].status = "ready"

\* The steps that end with a call of drawFrame.
DrawOps == {"loaded", "tick", "resize"}

\* C7: drawFrame clears and blits only when frameIndex differs from Last Drawn
\* Frame.  Successive draws of one frame index with no resize in between blit
\* at most once in all, however many ticks they are; the two successive
\* drawFrame(0) calls of the initial setup blit exactly once when frame 0 is
\* ready; and after a draw of a ready frame that frame is the one drawn.
C7_RedrawSuppression ==
  /\ \A k \in 1..Len(last.blits) : last.blits[k].prev # last.blits[k].frame
  /\ streak.blits <= 1
  /\ (last.op = "loaded" /\ Drawable(imageCache[0])) => Len(last.blits) = 1
  /\ (last.op = "loaded" /\ ~Drawable(imageCache[0])) => last.blits = <<>>
  /\ (last.op = "tick" /\ last.before = targetFrame) => last.blits = <<>>
  /\ (/\ last.op \in DrawOps
      /\ streak.frame \in DOMAIN imageCache
      /\ Drawable(imageCache[streak.frame])) =>
       (lastDrawnFrame = streak.frame /\ canvasFrame = streak.frame)

\* A tick found its ready target frame already drawn by an earlier draw of
\* the same run and left the canvas alone.
C7_Witness ==
  /\ last.op = "tick"
  /\ last.blits = <<>>
  /\ streak = [frame |-> targetFrame, blits |-> 1]
  /\ lastDrawnFrame = targetFrame
  /\ Drawable(imageCache[targetFrame])

\* What C8 says of one step.
C8_ResizeStep ==
  /\ last'.op = "resize" =>
       IF targetFrame' \in DOMAIN imageCache' /\ Drawable(imageCache'[targetFrame'])
       THEN /\ last'.blits = <<[frame |-> targetFrame', target |-> targetFrame',
                               prev |-> NoFrame]>>
            /\ lastDrawnFrame' = targetFrame'
            /\ canvasFrame' = targetFrame'
       ELSE /\ last'.blits = <<>>
            /\ lastDrawnFrame' = NoFrame
  /\ (lastDrawnFrame = NoFrame /\ lastDrawnFrame' # NoFrame) =>
       /\ last'.blits # <<>>
       /\ last'.blits[Len(last'.blits)].frame = lastDrawnFrame'

\* C8: a resize resets Last Drawn Frame to -1: with the target frame's entry
\* ready the resize handler blits the target frame, also when it is the frame
\* drawn before the resize; otherwise Last Drawn Frame is -1 after the resize
\* and stays -1 until a draw succeeds.
C8_ForcedRedraw == [][C8_ResizeStep]_vars

\* The resize handler has drawn again the frame that was already drawn.
C8_Witness ==
  /\ last.op = "resize"
  /\ last.before = targetFrame
  /\ Len(last.blits) = 1
  /\ lastDrawnFrame = targetFrame

\* C9: after a resize event Target Frame is the frame the scroll mapping gives
\* for the current scrollY and the new scrollable height.
C9_ResizeRemaps ==
  last.op = "resize" => targetFrame = handleScroll(targetFrame, scrollY, scrollableHeight)

\* What C10 says of one step.
C10_DegenerateStep ==
  (last'.op = "scroll" /\ scrollableHeight' <= 0) =>
    /\ targetFrame' = targetFrame
    /\ UNCHANGED <<lastDrawnFrame, canvasFrame, imageCache, inFlight, issued,
                   activeScene, sceneUpdate>>

\* C10: a scroll event that finds the scrollable height <= 0 leaves Target
\* Frame as it was, and Last Drawn Frame, the canvas, the cache, the loads and
\* the overlay unchanged.
C10_DegenerateScroll == [][C10_DegenerateStep]_vars

\* A scroll away from the top was ignored on a page too short to scroll.
C10_Witness ==
  /\ last.op = "scroll"
  /\ scrollableHeight <= 0
  /\ scrollY > 0
  /\ targetFrame = 0

\* The entry of frame i is ready: its load completed successfully.
Ready(cache, i) == i \in DOMAIN cache /\ cache[i].status = "ready"

\* What C11 says of one step.
C11_DrawStep ==
  /\ \A k \in 1..Len(last'.blits) : Ready(imageCache, last'.blits[k].frame)
  /\ (last'.op = "tick" /\ ~Ready(imageCache, targetFrame)) =>
       /\ last'.blits = <<>>
       /\ UNCHANGED <<lastDrawnFrame, canvasFrame>>
  /\ (last'.op = "loaded" /\ ~Ready(imageCache, 0)) =>
       /\ last'.blits = <<>>
       /\ lastDrawnFrame' = NoFrame
  /\ lastDrawnFrame' # NoFrame => Ready(imageCache', lastDrawnFrame')
  /\ canvasFrame' # NoFrame => Ready(imageCache', canvasFrame')

\* C11: a frame is drawn only when its cache entry is ready.  Every blit is
\* of a frame whose load completed successfully, and Last Drawn Frame, when
\* not -1, names such a frame; a tick whose target frame has an absent,
\* pending or failed entry blits nothing and leaves Last Drawn Frame and the
\* canvas as they were, and so does the startup draw of a frame 0 that is not
\* ready; after a load failure the ticks go on.
C11_DrawOnlyReady == [][C11_DrawStep]_vars

\* A tick found the entry of its target frame failed and left on the canvas
\* the frame drawn before.
C11_Witness ==
  /\ last.op = "tick"
  /\ targetFrame = 658
  /\ imageCache[658].status = "failed"
  /\ last.blits = <<>>
  /\ lastDrawnFrame = 0
  /\ canvasFrame = 0
  /\ rafPending = 1

\* The preload window of target frame t.
PreloadWindow(t) ==
  Max(0, t - PRELOAD_BEHIND)..Min(TOTAL_FRAMES - 1, t + PRELOAD_AHEAD)

\* Target frames whose window overlaps in part the frames the initial-load
\* phase or a tick at frame 658 has cached.
OverlapTargets == {45, 670}

\* What C12 says of one call of the preload scheduler on the cache as it is.
C12_Call ==
  \A t \in OverlapTargets :
    LET p == preloadFrames(imageCache, t)
        absent == PreloadWindow(t) \ DOMAIN imageCache
    IN  /\ PreloadWindow(t) \subseteq DOMAIN p.cache
        /\ {p.loads[k] : k \in 1..Len(p.loads)} = absent
        /\ Len(p.loads) = Cardinality(absent)
        /\ DOMAIN p.cache = DOMAIN imageCache \cup absent

\* What C12 says of one step.
C12_TickStep ==
  last'.op = "tick" =>
    LET absent == PreloadWindow(targetFrame) \ DOMAIN imageCache
        loads == {inFlight'[k] : k \in (Len(inFlight) + 1)..Len(inFlight')}
    IN  /\ targetFrame' = targetFrame
        /\ PreloadWindow(targetFrame) \subseteq DOMAIN imageCache'
        /\ \A i \in PreloadWindow(targetFrame) :
             imageCache'[i].status \in {"pending", "ready", "failed"}
        /\ SubSeq(inFlight', 1, Len(inFlight)) = inFlight
        /\ loads = absent
        /\ Len(inFlight') = Len(inFlight) + Cardinality(absent)
        /\ DOMAIN imageCache' = DOMAIN imageCache \cup absent
        /\ \A i \in absent : issued'[i] = 1 /\ imageCache'[i].status = "pending"
        /\ \A i \in DOMAIN issued : issued'[i] = issued[i]

\* C12: after every render tick with target frame t every index of the window
\* [max(0, t - 10), min(TOTAL_FRAMES - 1, t + 30)] has a cache entry, and the
\* tick issues one load for each window index that had no entry before it and
\* none for any other index; the same holds of the preload scheduler called on
\* a window that is cached in part.
C12_PreloadWindow == [](C12_Call) /\ [][C12_TickStep]_vars

\* A tick at frame 658 has issued the loads of its whole window, far from the
\* frames cached before.
C12_Witness ==
  /\ last.op = "tick"
  /\ targetFrame = 658
  /\ inFlight = Range(658 - PRELOAD_BEHIND, 658 + PRELOAD_AHEAD)
  /\ DOMAIN imageCache = (0..(INITIAL_PRELOAD_COUNT - 1)) \cup PreloadWindow(658)

\* Scroll offsets with overscroll at both ends, and scrollable heights, that a
\* scroll event may find.
OverscrollStops == {-120, -1, 0, 1, 16000, 40000}
AnyHeights == ProbeHeights \cup {14000, 28000}

\* C13: in every reachable state Target Frame is an integer in
\* [0, TOTAL_FRAMES).  It is 0 at the start and as long as the listeners are
\* not registered, and whatever scrollY (negative, beyond the scrollable
\* height) and scrollable height a scroll event finds, the scroll mapper
\* writes a value in [0, TOTAL_FRAMES - 1].
C13_TargetInRange ==
  /\ targetFrame \in 0..(TOTAL_FRAMES - 1)
  /\ last.op = "mount" => targetFrame = 0
  /\ isLoading => targetFrame = 0
  /\ \A y \in OverscrollStops, H \in AnyHeights :
       handleScroll(targetFrame, y, H) \in 0..(TOTAL_FRAMES - 1)

\* A scroll beyond the scrollable height was mapped to the last frame.
C13_Witness ==
  /\ last.op = "scroll"
  /\ scrollableHeight > 0
  /\ scrollY > scrollableHeight
  /\ targetFrame = TOTAL_FRAMES - 1

\* The overlay the claim assigns to target frame t: the scene of the trigger
\* with the greatest absolute frame <= t while t is within the visibility
\* window of that trigger, no scene otherwise.
OverlayFor(t) ==
  LET past == {i \in 1..Len(balloonMetadata) : TriggerFrames[i] <= t}
  IN  IF past = {} THEN null
      ELSE LET m == CHOOSE i \in past :
                      \A j \in past : TriggerFrames[j] <= TriggerFrames[i]
           IN  IF t - TriggerFrames[m] < BALLOON_VISIBILITY_WINDOW
               THEN balloonMetadata[m].scene ELSE null

\* The overlay state: activeScene once React has applied the queued update.
Overlay == ApplyCalls(activeScene, sceneUpdate)

\* C14: the overlay is a function of Target Frame alone: after every overlay
\* evaluation (every tick) with target frame t the overlay is the scene of the
\* trigger with the greatest absolute frame <= t if t is less than
\* BALLOON_VISIBILITY_WINDOW frames past it, and inactive otherwise, whatever
\* the overlay was before.
C14_OverlayOfTarget ==
  last.op = "tick" => Overlay = OverlayFor(targetFrame)

\* C15: while the system is loading no render tick is pending or runs, no
\* frame is drawn, the scroll and resize listeners are not registered and no
\* scroll or resize event changes Target Frame or the canvas; a tick, a draw
\* or a registered listener is found only after all 60 initial loads have
\* settled, with success or failure.
C15_NothingWhileLoading ==
  /\ isLoading =>
       /\ rafPending = 0
       /\ ~listening
       /\ last.op \in {"mount", "load", "none", "unmount"}
       /\ last.blits = <<>>
       /\ lastDrawnFrame = NoFrame
       /\ canvasFrame = NoFrame
       /\ canvasHeight = DefaultCanvasHeight
       /\ targetFrame = 0
  /\ (\/ rafPending > 0
      \/ listening
      \/ lastDrawnFrame # NoFrame
      \/ last.op \in {"loaded", "tick", "scroll", "resize", "commit"}) =>
       (~isLoading /\ InitialSettled)

\* The page was scrolled while loads of the initial phase were still pending:
\* Target Frame stayed 0 and the canvas was not even sized.
C15_Witness ==
  /\ isLoading
  /\ mounted
  /\ ~InitialSettled
  /\ last.op = "none"
  /\ scrollY = 16000
  /\ scrollableHeight > 0
  /\ targetFrame = 0
  /\ canvasHeight # innerHeight

\* What C16 says of one step.
C16_CacheStep ==
  imageCache' # imageCache =>
    /\ DOMAIN imageCache \subseteq DOMAIN imageCache'
    /\ \A i \in DOMAIN imageCache :
         /\ imageCache'[i].src = imageCache[i].src
         /\ imageCache[i].status # "pending" => imageCache'[i] = imageCache[i]
    /\ Cardinality(DOMAIN imageCache') <= TOTAL_FRAMES

\* C16: the frame cache never evicts: a frame index that has an entry has one
\* in every later state, wherever the target frame moves; an entry that is
\* ready or failed never changes again; and the cache never holds more than
\* TOTAL_FRAMES entries.
C16_NoEviction == [][C16_CacheStep]_vars

\* The target frame went from one end of the film to the other and back, and
\* the cache holds the three windows, the failed frame among them.
C16_Witness ==
  /\ last.op = "tick"
  /\ targetFrame = 0
  /\ imageCache[0].status = "failed"
  /\ PreloadWindow(658) \cup PreloadWindow(TOTAL_FRAMES - 1) \subseteq DOMAIN imageCache
  /\ Cardinality(DOMAIN imageCache)
       = INITIAL_PRELOAD_COUNT + Cardinality(PreloadWindow(658))
           + Cardinality(PreloadWindow(TOTAL_FRAMES - 1))

\* What C17 says of one step taken after teardown.
C17_TeardownStep ==
  ~mounted =>
    /\ last'.op \in {"load", "none"}
    /\ UNCHANGED <<targetFrame, lastDrawnFrame, canvasFrame, canvasHeight,
                   activeScene, sceneUpdate, issued>>

\* C17: teardown releases the render loop and the listeners.  After it no
\* animation frame is pending, also when the pending one was requested by the
\* most recent tick, so no render tick runs; the listeners are removed, and
\* no scroll or resize event changes Target Frame, Last Drawn Frame or the
\* canvas.
C17_Teardown ==
  /\ [](~mounted => (rafPending = 0 /\ ~listening))
  /\ [][C17_TeardownStep]_vars

\* Home was torn down while its loop, restarted once by the overlay, was
\* ticking; the page was scrolled afterwards and Target Frame stayed as it was.
C17_Witness ==
  /\ ~mounted
  /\ ~isLoading
  /\ activeScene.creature = "Cosmic Dragon"
  /\ last.op = "none"
  /\ scrollY = 16000
  /\ scrollableHeight > 0
  /\ targetFrame = 0
  /\ lastDrawnFrame = 0

\* C18: at every moment at most one render tick is pending.  A tick leaves
\* exactly one request pending, its own; when a change of the overlay state
\* restarts the loop, the request of the old loop is cancelled before the new
\* loop makes its own, so one request is pending again and never two; none
\* is pending before loading ends or after teardown.
C18_OneTickPending ==
  /\ rafPending \in {0, 1}
  /\ last.op \in {"tick", "commit", "loaded"} => rafPending = 1
  /\ (mounted /\ ~isLoading) => rafPending = 1
  /\ (isLoading \/ ~mounted) => rafPending = 0

\* The overlay state changed twice, to the first scene and back to none, and
\* the loop restarted each time with one tick pending.
C18_Witness ==
  /\ last.op = "commit"
  /\ activeScene = null
  /\ targetFrame = 658
  /\ rafPending = 1

\* The frames a scroll targets that no load was issued for at mount.
FarTargets == {658, TOTAL_FRAMES - 1}

\* C19: with the render loop running and the canvas there, when Target Frame
\* is f and the load of frame f succeeds, then Last Drawn Frame becomes f,
\* unless Target Frame moves away or Home is torn down first: a frame that was
\* absent when first targeted is requested by a tick and drawn by a later
\* tick once loaded, with no further scroll event.
C19_EventuallyDrawn ==
  \A f \in FarTargets :
    (mounted /\ ~isLoading /\ targetFrame = f /\ f \notin broken)
      ~> (lastDrawnFrame = f \/ targetFrame # f \/ ~mounted)

\* A tick has drawn frame 658, which an earlier tick had requested.
C19_Witness ==
  /\ last.op = "tick"
  /\ targetFrame = 658
  /\ issued[658] = 1
  /\ Len(last.blits) = 1
  /\ last.blits[1].frame = 658
  /\ lastDrawnFrame = 658

\* C20: every blit draws the frame that is Target Frame at the moment of the
\* blit, in the ticks, in the resize handler and in the initial setup
\* handleResize(); handleScroll(); drawFrame(0), also when the page is
\* scrolled away from the top at that time; Last Drawn Frame is the frame on
\* the canvas.
C20_BlitIsTarget ==
  /\ \A k \in 1..Len(last.blits) : last.blits[k].frame = last.blits[k].target
  /\ mounted => canvasFrame = lastDrawnFrame
  /\ (last.op \in {"tick", "resize"} /\ last.blits # <<>>) => canvasFrame = targetFrame

\* The initial setup ran on a page scrolled away from the top: handleResize
\* drew frame 0 while it was the target frame, handleScroll moved the target
\* frame, and drawFrame(0) drew nothing.
C20_Witness ==
  /\ last.op = "loaded"
  /\ scrollY = 16000
  /\ targetFrame = 658
  /\ last.blits = <<[frame |-> 0, target |-> 0, prev |-> NoFrame]>>
  /\ canvasFrame = 0

====
